---------------------------- MODULE Spec2Model ----------------------------
(***************************************************************************)
(* darkscore-select (src/src/darkscore-select.cpp): the darkness buckets,  *)
(* the hour policy, the BucketIterator with its fallback search and        *)
(* reshuffles, and the loop thread with its cancellable sleep, the         *)
(* keypress loop of main and the SIGRTMIN+10 handler.                      *)
(*                                                                         *)
(* Scores are written in twentieths: the integer v stands for v/20, so the *)
(* thresholds 0.9, 0.8, 0.6, 0.4, 0.2, 0.0 are 18, 16, 12, 8, 4, 0.        *)
(***************************************************************************)
EXTENDS Integers, Sequences, FiniteSets, TLC

VARIABLES
    buckets,          \* main: auto buckets = loadBuckets(inputPath)
    shuffledBuckets,  \* BucketIterator::shuffledBuckets
    currentIndices,   \* BucketIterator::currentIndices
    lastUsedBucket,   \* BucketIterator::lastUsedBucket
    ret,              \* outcome of the last getNext call
    pass,             \* history: images returned since the chosen bucket's cursor was last 0
    lastPass,         \* history: the pass from cursor 0 to the wraparound that the last call completed
    since,            \* history: per bucket, images returned since all of it had been returned
    repeated,         \* history: the last call returned an image already in since[chosen]
    call,             \* the last evaluation of a pure function: name, arguments, result
    isDaemon,         \* main: program.get<bool>("daemon")
    g_running,        \* std::atomic<bool> g_running
    g_sleeping,       \* std::atomic<bool> g_sleeping
    pcLogic,          \* position of logicThread
    pcMain,           \* position of the main thread
    keyC,             \* main: char c of the keypress loop ("q" or "x")
    sigPc,            \* position of handle_signal ("idle" when none runs)
    sigThread,        \* the thread handle_signal interrupts
    notified,         \* g_sleep_cv: the blocked waiter has been woken by notify_all
    expired,          \* the deadline of the current wait_for has passed
    applied,          \* path last handed to executeWallpaperChange (0: none yet)
    slept,            \* history: how the sleep that just finished returned ("cut": before its deadline)
    cancelInSleep,    \* history: g_sleeping was set false since this sleep set it true
    stale,            \* history: "before": a cancel store ran outside a sleep; "entered": and a sleep began after it
    quitRead,         \* history: the keypress loop has read 'q'
    isLoop,           \* main: program.get<bool>("loop")
    inputFile,        \* the file at inputPath: "missing", "unreadable" or "ok"
    fileRows,         \* the lines of the file after its header
    exitCodes,        \* exit statuses of the processes of the run that have ended, in order
    iteratorBuilt,    \* main: BucketIterator iterator(buckets) has been constructed
    applyCount,       \* calls of executeWallpaperChange by the single execution mode
    single,           \* single execution mode: targetBucket, chosenBucket, chosen
    idxBefore         \* history: currentIndices[chosen] when the last successful call began

iterVars == <<shuffledBuckets, currentIndices, lastUsedBucket>>
histVars == <<pass, lastPass, since, repeated, idxBefore>>
loopVars == <<isDaemon, g_running, g_sleeping, pcLogic, pcMain, keyC, sigPc, sigThread,
              notified, expired, applied, slept, cancelInSleep, stale, quitRead>>
mainVars == <<isLoop, inputFile, fileRows, exitCodes, iteratorBuilt, applyCount, single>>
vars == <<buckets, shuffledBuckets, currentIndices, lastUsedBucket, ret, pass, lastPass,
          since, repeated, call, isDaemon, g_running, g_sleeping, pcLogic, pcMain, keyC,
          sigPc, sigThread, notified, expired, applied, slept, cancelInSleep, stale,
          quitRead, isLoop, inputFile, fileRows, exitCodes, iteratorBuilt, applyCount, single,
          idxBefore>>

(***************************************************************************)
(* Bounds of the model.                                                    *)
(***************************************************************************)
\* rows of the dataset file after the header (iterator specification)
MaxRows == 3
\* rows of the dataset file after the header (loop specification)
MaxLoopRows == 2
\* largest score of the grid of the classifier, in twentieths (21 = 1.05)
MaxScore == 21

(***************************************************************************)
(* Program constants.                                                      *)
(***************************************************************************)
NumBuckets == 6
BucketIds == 0 .. (NumBuckets - 1)
Hours == 0 .. 23
ScoreGrid == (0 - 2) .. MaxScore
\* scores of the rows of a dataset: 0.0, 0.25, 0.65, 0.95
DatasetScores == {0, 5, 13, 19}
NoImage == [filePath |-> 0, score |-> 0]

(***************************************************************************)
(* BucketClassifier.                                                       *)
(***************************************************************************)
getDarknessBucketGe(score) ==
    IF score >= 18 THEN 0
    ELSE IF score >= 16 THEN 1
    ELSE IF score >= 12 THEN 2
    ELSE IF score >= 8 THEN 3
    ELSE IF score >= 4 THEN 4
    ELSE 5

getDarknessBucket(score) ==
    IF score > 18 THEN 0
    ELSE IF score > 16 THEN 1
    ELSE IF score > 12 THEN 2
    ELSE IF score > 8 THEN 3
    ELSE IF score > 4 THEN 4
    ELSE IF score > 0 THEN 5
    ELSE 5

getTargetBucketForHourHelp(hour) ==
    IF hour >= 21 THEN 0
    ELSE IF hour >= 20 THEN 1
    ELSE IF hour >= 19 THEN 2
    ELSE IF hour >= 18 THEN 3
    ELSE IF hour >= 17 THEN 4
    ELSE IF hour >= 12 THEN 5
    ELSE IF hour >= 9 THEN 4
    ELSE IF hour >= 7 THEN 2
    ELSE IF hour >= 5 THEN 1
    ELSE 0

getTargetBucketForHour(hour) ==
    IF hour >= 21 THEN 0
    ELSE IF hour >= 20 THEN 1
    ELSE IF hour >= 19 THEN 2
    ELSE IF hour >= 18 THEN 3
    ELSE IF hour >= 17 THEN 4
    ELSE IF hour >= 12 THEN 5
    ELSE IF hour >= 9 THEN 2
    ELSE IF hour >= 7 THEN 2
    ELSE IF hour >= 5 THEN 1
    ELSE IF hour >= 0 THEN 0
    ELSE 0

(***************************************************************************)
(* DatasetLoader.  A row is the line after csv_split: the number of its    *)
(* fields, whether std::stod parses the second one, and the score it       *)
(* yields.  The path of row i is i.                                        *)
(***************************************************************************)
RowSet ==
    {[fields |-> 2, parses |-> TRUE, score |-> s] : s \in DatasetScores}
    \cup {[fields |-> 2, parses |-> FALSE, score |-> 0],
          [fields |-> 1, parses |-> FALSE, score |-> 0]}

Datasets(n) == UNION {[1 .. k -> RowSet] : k \in 0 .. n}

EmptyBuckets == [b \in BucketIds |-> <<>>]

RECURSIVE loadRows(_, _, _)
loadRows(rows, i, bs) ==
    IF i > Len(rows) THEN bs
    ELSE IF rows[i].fields < 2 THEN loadRows(rows, i + 1, bs)
    ELSE IF ~rows[i].parses THEN loadRows(rows, i + 1, bs)
    ELSE LET image == [filePath |-> i, score |-> rows[i].score]
             b == getDarknessBucket(image.score)
         IN  loadRows(rows, i + 1, [bs EXCEPT ![b] = Append(@, image)])

loadBuckets(rows) == loadRows(rows, 1, EmptyBuckets)

hasImages(bs) == \E b \in BucketIds : bs[b] # <<>>

(***************************************************************************)
(* std::shuffle: any permutation of the sequence.                          *)
(***************************************************************************)
ShufflesWithRepeat(s) ==
    IF Len(s) <= 1 THEN {s}
    ELSE [1 .. Len(s) -> {s[i] : i \in 1 .. Len(s)}]

Shuffles(s) ==
    IF Len(s) <= 1 THEN {s}
    ELSE {[i \in 1 .. Len(s) |-> s[p[i]]] : p \in Permutations(1 .. Len(s))}

RECURSIVE ShuffleFrom(_, _)
ShuffleFrom(bs, b) ==
    IF b >= NumBuckets THEN {bs}
    ELSE UNION {ShuffleFrom([bs EXCEPT ![b] = p], b + 1) : p \in Shuffles(bs[b])}

Elems(s) == {s[i] : i \in 1 .. Len(s)}

(***************************************************************************)
(* BucketIterator::getNext, lines 174-189: the fallback search.            *)
(***************************************************************************)
RECURSIVE FindLoopShort(_, _, _, _)
FindLoopShort(bs, targetBucket, chosenBucket, offset) ==
    IF bs[chosenBucket] = <<>> /\ offset < 2
    THEN LET o == offset + 1
             up == targetBucket + o
             down == targetBucket - o
         IN  IF up < NumBuckets /\ bs[up] # <<>> THEN up
             ELSE IF down >= 0 /\ bs[down] # <<>> THEN down
             ELSE FindLoopShort(bs, targetBucket, chosenBucket, o)
    ELSE chosenBucket

RECURSIVE FindLoopDownFirst(_, _, _, _)
FindLoopDownFirst(bs, targetBucket, chosenBucket, offset) ==
    IF bs[chosenBucket] = <<>> /\ offset < NumBuckets
    THEN LET o == offset + 1
             up == targetBucket + o
             down == targetBucket - o
         IN  IF down >= 0 /\ bs[down] # <<>> THEN down
             ELSE IF up < NumBuckets /\ bs[up] # <<>> THEN up
             ELSE FindLoopDownFirst(bs, targetBucket, chosenBucket, o)
    ELSE chosenBucket

RECURSIVE FindLoop(_, _, _, _)
FindLoop(bs, targetBucket, chosenBucket, offset) ==
    IF bs[chosenBucket] = <<>> /\ offset < NumBuckets
    THEN LET o == offset + 1
             up == targetBucket + o
             down == targetBucket - o
         IN  IF up < NumBuckets /\ bs[up] # <<>> THEN up
             ELSE IF down >= 0 /\ bs[down] # <<>> THEN down
             ELSE FindLoop(bs, targetBucket, chosenBucket, o)
    ELSE chosenBucket

\* the bucket getNext goes on with; it is empty exactly when getNext throws
chosenBucketOf(bs, targetBucket) == FindLoop(bs, targetBucket, targetBucket, 0)


\* lines 191-193: getNext throws when the bucket it ended on is empty
resolve(bs, targetBucket) ==
    LET c == chosenBucketOf(bs, targetBucket)
    IN  [ok |-> bs[c] # <<>>, bucket |-> c]

\* A one-shot search that gives up after two offsets.
RECURSIVE SingleFindLoopShort(_, _, _, _)
SingleFindLoopShort(bs, targetBucket, chosenBucket, offset) ==
    IF bs[chosenBucket] = <<>> /\ offset < 2
    THEN LET o == offset + 1
             up == targetBucket + o
             down == targetBucket - o
         IN  IF up < NumBuckets /\ bs[up] # <<>> THEN up
             ELSE IF down >= 0 /\ bs[down] # <<>> THEN down
             ELSE SingleFindLoopShort(bs, targetBucket, chosenBucket, o)
    ELSE chosenBucket

\* The one-shot search with the downward candidate tried first.
RECURSIVE SingleFindLoopDownFirst(_, _, _, _)
SingleFindLoopDownFirst(bs, targetBucket, chosenBucket, offset) ==
    IF bs[chosenBucket] = <<>> /\ offset < NumBuckets
    THEN LET o == offset + 1
             up == targetBucket + o
             down == targetBucket - o
         IN  IF down >= 0 /\ bs[down] # <<>> THEN down
             ELSE IF up < NumBuckets /\ bs[up] # <<>> THEN up
             ELSE SingleFindLoopDownFirst(bs, targetBucket, chosenBucket, o)
    ELSE chosenBucket

\* lines 450-464: the fallback search of the single execution mode, over buckets
RECURSIVE SingleFindLoop(_, _, _, _)
SingleFindLoop(bs, targetBucket, chosenBucket, offset) ==
    IF bs[chosenBucket] = <<>> /\ offset < NumBuckets
    THEN LET o == offset + 1
             up == targetBucket + o
             down == targetBucket - o
         IN  IF up < NumBuckets /\ bs[up] # <<>> THEN up
             ELSE IF down >= 0 /\ bs[down] # <<>> THEN down
             ELSE SingleFindLoop(bs, targetBucket, chosenBucket, o)
    ELSE chosenBucket

\* lines 447-468: what the single execution mode resolves a target to, and
\* whether it goes on (TRUE) or throws "No wallpapers available"
resolveSingle(bs, targetBucket) ==
    LET c == SingleFindLoop(bs, targetBucket, targetBucket, 0)
    IN  [ok |-> bs[c] # <<>>, bucket |-> c]

(***************************************************************************)
(* BucketIterator: constructor and getNext.                                *)
(***************************************************************************)
NoBucket == -1

NoRet == [status |-> "none", target |-> NoBucket, bucket |-> NoBucket,
          image |-> NoImage, readImage |-> NoImage, switched |-> FALSE, wrapped |-> FALSE]

NoPass == [bucket |-> NoBucket, images |-> <<>>]

IteratorInitCursorOne(bs) ==
    /\ shuffledBuckets \in ShuffleFrom(bs, 0)
    /\ currentIndices = [b \in BucketIds |-> 1]
    /\ lastUsedBucket = NoBucket
    /\ ret = NoRet
    /\ pass = <<>>
    /\ lastPass = NoPass
    /\ since = [b \in BucketIds |-> {}]
    /\ repeated = FALSE
    /\ idxBefore = 0

\* BucketIterator(buckets): every bucket shuffled, cursors 0, lastUsedBucket -1
IteratorInit(bs) ==
    /\ shuffledBuckets \in ShuffleFrom(bs, 0)
    /\ currentIndices = [b \in BucketIds |-> 0]
    /\ lastUsedBucket = NoBucket
    /\ ret = NoRet
    /\ pass = <<>>
    /\ lastPass = NoPass
    /\ since = [b \in BucketIds |-> {}]
    /\ repeated = FALSE
    /\ idxBefore = 0

\* `result` is a reference to the slot shuffledBuckets[chosenBucket][currentIdx]
\* (line 209); `return result` (line 222) copies what the slot holds then,
\* after the in-place shuffle of lines 217-219.
returnedSlot(orderRead, orderEnd, slot) == orderEnd[slot]

\* the history of returned images after a successful call
History(chosenBucket, switched, wrapped, image) ==
    LET grown == Append(IF switched THEN <<>> ELSE pass, image)
        seen == since[chosenBucket] \cup {image}
    IN  /\ pass' = IF wrapped THEN <<>> ELSE grown
        /\ lastPass' = IF wrapped /\ Len(grown) = Len(shuffledBuckets[chosenBucket])
                       THEN [bucket |-> chosenBucket, images |-> grown]
                       ELSE NoPass
        /\ repeated' = (image \in since[chosenBucket])
        /\ idxBefore' = currentIndices[chosenBucket]
        /\ since' = [since EXCEPT ![chosenBucket] =
                        IF wrapped \/ seen = Elems(shuffledBuckets[chosenBucket])
                        THEN {} ELSE seen]

bucketChangedFirstUse(chosenBucket, lastUsed) == lastUsed = NoBucket

\* line 196: if (chosenBucket != lastUsedBucket)
bucketChanged(chosenBucket, lastUsed) == chosenBucket # lastUsed

reachedEndEarly(currentIdx, size) == currentIdx + 1 >= size

\* A throw that first records the requested bucket as the one in use.
noWallpapersMarksBucket(targetBucket) ==
    /\ ret' = [NoRet EXCEPT !.status = "error", !.target = targetBucket]
    /\ lastUsedBucket' = targetBucket
    /\ UNCHANGED <<shuffledBuckets, currentIndices>>

\* lines 191-193: throw std::runtime_error("No wallpapers available in any
\* bucket"); nothing of the iterator has been written before this point, the
\* search of lines 174-189 works on locals only.
noWallpapers(targetBucket) ==
    /\ ret' = [NoRet EXCEPT !.status = "error", !.target = targetBucket]
    /\ UNCHANGED iterVars

\* A wrap test that lets the cursor rest on the size of the bucket.
reachedEndLate(currentIdx, size) == currentIdx > size

\* line 213: if (currentIdx >= shuffledBuckets[chosenBucket].size())
reachedEnd(currentIdx, size) == currentIdx >= size

getNext(targetBucket) ==
    LET chosenBucket == chosenBucketOf(shuffledBuckets, targetBucket)
    IN  IF shuffledBuckets[chosenBucket] = <<>>
        THEN noWallpapers(targetBucket)
        ELSE LET switched == bucketChanged(chosenBucket, lastUsedBucket)
                 currentIdx == IF switched THEN 0 ELSE currentIndices[chosenBucket]
                 advanced == currentIdx + 1
                 wrapped == reachedEnd(advanced, Len(shuffledBuckets[chosenBucket]))
             IN  \E orderRead \in (IF switched THEN Shuffles(shuffledBuckets[chosenBucket])
                                               ELSE {shuffledBuckets[chosenBucket]}) :
                 \E orderEnd \in (IF wrapped THEN Shuffles(orderRead) ELSE {orderRead}) :
                    LET image == returnedSlot(orderRead, orderEnd, currentIdx + 1)
                    IN  /\ shuffledBuckets' = [shuffledBuckets EXCEPT ![chosenBucket] = orderEnd]
                        /\ currentIndices' = [currentIndices EXCEPT ![chosenBucket] =
                                                 IF wrapped THEN 0 ELSE advanced]
                        /\ lastUsedBucket' = IF switched THEN chosenBucket ELSE lastUsedBucket
                        /\ ret' = [status |-> "ok", target |-> targetBucket,
                                   bucket |-> chosenBucket, image |-> image,
                                   readImage |-> orderRead[currentIdx + 1],
                                   switched |-> switched, wrapped |-> wrapped]

TrackHistory ==
    IF ret'.status = "ok"
    THEN History(ret'.bucket, ret'.switched, ret'.wrapped, ret'.image)
    ELSE UNCHANGED histVars

(***************************************************************************)
(* The state of the parts a specification does not run.                    *)
(***************************************************************************)
NoCall == [fn |-> "none", arg |-> 0, bs |-> EmptyBuckets, ok |-> TRUE, res |-> 0]

NoSingle == [target |-> NoBucket, bucket |-> NoBucket, image |-> NoImage]

\* <cstdlib>: the statuses of exit() in daemonize (lines 45, 50); main returns 1 and 0
EXIT_SUCCESS == 0
EXIT_FAILURE == 1

\* main has loaded the rows rs and, if built, constructed the iterator; in
\* daemon mode the two parents of daemonize have exited
MainPast(rs, built, daemon) ==
    /\ isLoop = TRUE
    /\ inputFile = "ok"
    /\ fileRows = rs
    /\ exitCodes = IF daemon THEN <<EXIT_SUCCESS, EXIT_SUCCESS>> ELSE <<>>
    /\ iteratorBuilt = built
    /\ applyCount = 0
    /\ single = NoSingle

LoopIdle ==
    /\ isDaemon = FALSE
    /\ g_running = TRUE
    /\ g_sleeping = FALSE
    /\ pcLogic = "unstarted"
    /\ pcMain = "unstarted"
    /\ keyC = "x"
    /\ sigPc = "idle"
    /\ sigThread = "none"
    /\ notified = FALSE
    /\ expired = FALSE
    /\ applied = 0
    /\ slept = "none"
    /\ cancelInSleep = FALSE
    /\ stale = "no"
    /\ quitRead = FALSE

(***************************************************************************)
(* SpecIter: a BucketIterator built over the buckets of any dataset of at  *)
(* most MaxRows rows, under any sequence of getNext calls.                  *)
(***************************************************************************)
InitIter ==
    /\ \E rs \in Datasets(MaxRows) :
          /\ MainPast(rs, TRUE, FALSE)
          /\ buckets = loadBuckets(rs)
          /\ IteratorInit(buckets)
    /\ call = NoCall
    /\ LoopIdle

IterGetNext ==
    /\ \E targetBucket \in BucketIds : getNext(targetBucket)
    /\ TrackHistory
    /\ UNCHANGED <<mainVars, buckets, call, loopVars>>

NextIter == IterGetNext

SpecIter == InitIter /\ [][NextIter]_vars

(***************************************************************************)
(* SpecPure: the pure functions applied to every input of their domains.   *)
(***************************************************************************)
\* one image per bucket of cfg: 0.95, 0.85, 0.65, 0.45, 0.25, 0.05
RepScore == <<19, 17, 13, 9, 5, 1>>

ConfigRows(cfg) ==
    [i \in 1 .. NumBuckets |->
        IF (i - 1) \in cfg THEN [fields |-> 2, parses |-> TRUE, score |-> RepScore[i]]
        ELSE [fields |-> 1, parses |-> FALSE, score |-> 0]]

InitPure ==
    /\ buckets = EmptyBuckets
    /\ shuffledBuckets = EmptyBuckets
    /\ currentIndices = [b \in BucketIds |-> 0]
    /\ lastUsedBucket = NoBucket
    /\ ret = NoRet
    /\ pass = <<>>
    /\ lastPass = NoPass
    /\ since = [b \in BucketIds |-> {}]
    /\ repeated = FALSE
    /\ idxBefore = 0
    /\ call = NoCall
    /\ LoopIdle
    /\ MainPast(<<>>, FALSE, FALSE)

PureClassify ==
    /\ \E score \in ScoreGrid :
          call' = [NoCall EXCEPT !.fn = "getDarknessBucket", !.arg = score,
                                 !.res = getDarknessBucket(score)]
    /\ UNCHANGED <<mainVars, buckets, iterVars, ret, histVars, loopVars>>

PureHour ==
    /\ \E hour \in Hours :
          call' = [NoCall EXCEPT !.fn = "getTargetBucketForHour", !.arg = hour,
                                 !.res = getTargetBucketForHour(hour)]
    /\ UNCHANGED <<mainVars, buckets, iterVars, ret, histVars, loopVars>>

PureResolve ==
    /\ \E targetBucket \in BucketIds, cfg \in SUBSET BucketIds :
          LET bs == loadBuckets(ConfigRows(cfg))
              r == resolve(bs, targetBucket)
          IN  call' = [fn |-> "resolve", arg |-> targetBucket, bs |-> bs,
                       ok |-> r.ok, res |-> r.bucket]
    /\ UNCHANGED <<mainVars, buckets, iterVars, ret, histVars, loopVars>>

\* lines 447-468 on every emptiness configuration of the six buckets
PureResolveSingle ==
    /\ \E targetBucket \in BucketIds, cfg \in SUBSET BucketIds :
          LET bs == loadBuckets(ConfigRows(cfg))
              r == resolveSingle(bs, targetBucket)
          IN  call' = [fn |-> "resolveSingle", arg |-> targetBucket, bs |-> bs,
                       ok |-> r.ok, res |-> r.bucket]
    /\ UNCHANGED <<mainVars, buckets, iterVars, ret, histVars, loopVars>>

NextPure == PureClassify \/ PureHour \/ PureResolve \/ PureResolveSingle

SpecPure == InitPure /\ [][NextPure]_vars


(***************************************************************************)
(* Loop mode (lines 395-439): logicThread, the keypress loop of main, and  *)
(* handle_signal.  The handler runs on the thread the signal interrupts;   *)
(* that thread takes no step until the handler has returned.  At most one  *)
(* handler runs at a time.                                                 *)
(*                                                                         *)
(* wait_for(lock, d, pred) is  while (!pred()) if (wait_until(lock, t) ==  *)
(* timeout) return pred(); : "pred" evaluates the predicate under the      *)
(* mutex, "block" is the thread about to release the mutex and block,      *)
(* "waiting" is the thread blocked on g_sleep_cv.  Cancellers store and    *)
(* notify without holding g_sleep_mutex.                                   *)
(***************************************************************************)
InSleep == pcLogic \in {"pred", "block", "waiting"}

\* g_sleeping = false, by the keypress loop, the shutdown or the handler
CancelStore ==
    /\ g_sleeping' = FALSE
    /\ cancelInSleep' = (cancelInSleep \/ InSleep)
    /\ stale' = IF InSleep THEN stale ELSE "before"

\* g_sleep_cv.notify_all(): wakes the thread blocked in the wait, if there is one
CancelNotify == notified' = (notified \/ pcLogic = "waiting")

\* the outcomes of the apply step (executeCommand): it returns, or it raises
ApplyOutcomes == {"ok", "error"}

\* the hours the clock shows in the loop specification: night and midday
LoopHours == {3, 14}

LogicRuns == sigThread # "logic"
MainRuns == sigThread # "main"

\* line 400: while (g_running); the history of the last sleep ends here
LogicCheck ==
    /\ pcLogic = "check" /\ LogicRuns
    /\ pcLogic' = IF g_running THEN "iter" ELSE "exited"
    /\ slept' = "none"
    /\ cancelInSleep' = FALSE
    /\ stale' = IF stale = "entered" THEN "no" ELSE stale
    /\ UNCHANGED <<mainVars, buckets, iterVars, ret, histVars, call, isDaemon, g_running, g_sleeping,
                   pcMain, keyC, sigPc, sigThread, notified, expired, applied, quitRead>>

\* An iteration that calls getNext and sleeps without applying the image.
LogicGetNextSkipsApply ==
    /\ pcLogic = "iter" /\ LogicRuns
    /\ \E hour \in LoopHours : getNext(getTargetBucketForHour(hour))
    /\ pcLogic' = IF ret'.status = "ok" THEN "sleep" ELSE "backoff"
    /\ UNCHANGED <<mainVars, buckets, histVars, call, isDaemon, g_running, g_sleeping, pcMain, keyC,
                   sigPc, sigThread, notified, expired, applied, slept, cancelInSleep,
                   stale, quitRead>>

\* lines 402-407: hour, targetBucket, iterator.getNext(targetBucket); a
\* throw goes to the catch of line 413
LogicGetNext ==
    /\ pcLogic = "iter" /\ LogicRuns
    /\ \E hour \in LoopHours : getNext(getTargetBucketForHour(hour))
    /\ pcLogic' = IF ret'.status = "ok" THEN "apply" ELSE "backoff"
    /\ UNCHANGED <<mainVars, buckets, histVars, call, isDaemon, g_running, g_sleeping, pcMain, keyC,
                   sigPc, sigThread, notified, expired, applied, slept, cancelInSleep,
                   stale, quitRead>>

LogicApplyTearsDown ==
    /\ pcLogic = "apply" /\ LogicRuns
    /\ \E outcome \in ApplyOutcomes :
          /\ pcLogic' = IF outcome = "ok" THEN "sleep" ELSE "exited"
          /\ g_running' = (outcome = "ok" /\ g_running)
    /\ applied' = ret.image.filePath
    /\ UNCHANGED <<mainVars, buckets, iterVars, ret, histVars, call, isDaemon, g_sleeping, pcMain,
                   keyC, sigPc, sigThread, notified, expired, slept, cancelInSleep, stale,
                   quitRead>>

\* line 408: executeWallpaperChange(execStr, chosen, hour, targetBucket); an
\* error it raises is caught at line 413
LogicApply ==
    /\ pcLogic = "apply" /\ LogicRuns
    /\ \E outcome \in ApplyOutcomes :
          pcLogic' = IF outcome = "ok" THEN "sleep" ELSE "backoff"
    /\ applied' = ret.image.filePath
    /\ UNCHANGED <<mainVars, buckets, iterVars, ret, histVars, call, isDaemon, g_running, g_sleeping,
                   pcMain, keyC, sigPc, sigThread, notified, expired, slept, cancelInSleep,
                   stale, quitRead>>

\* A catch block that falls through to the cancellable sleep.
LogicBackoffThenSleeps ==
    /\ pcLogic = "backoff" /\ LogicRuns
    /\ pcLogic' = "sleep"
    /\ UNCHANGED <<mainVars, buckets, iterVars, ret, histVars, call, isDaemon, g_running, g_sleeping,
                   pcMain, keyC, sigPc, sigThread, notified, expired, applied, slept,
                   cancelInSleep, stale, quitRead>>

\* lines 413-416: the catch block, std::this_thread::sleep_for(2 s) done
LogicBackoff ==
    /\ pcLogic = "backoff" /\ LogicRuns
    /\ pcLogic' = "check"
    /\ UNCHANGED <<mainVars, buckets, iterVars, ret, histVars, call, isDaemon, g_running, g_sleeping,
                   pcMain, keyC, sigPc, sigThread, notified, expired, applied, slept,
                   cancelInSleep, stale, quitRead>>

LogicSleepSetSkipsStore ==
    /\ pcLogic = "sleep" /\ LogicRuns
    /\ pcLogic' = "pred"
    /\ expired' = FALSE
    /\ stale' = IF stale = "before" THEN "entered" ELSE "no"
    /\ UNCHANGED <<mainVars, buckets, iterVars, ret, histVars, call, isDaemon, g_running, g_sleeping,
                   pcMain, keyC, sigPc, sigThread, notified, applied, slept, cancelInSleep,
                   quitRead>>

\* interruptibleSleep, line 263: g_sleeping = true; the deadline of the
\* wait_for of line 266 lies ahead
LogicSleepSet ==
    /\ pcLogic = "sleep" /\ LogicRuns
    /\ g_sleeping' = TRUE
    /\ pcLogic' = "pred"
    /\ expired' = FALSE
    /\ stale' = IF stale = "before" THEN "entered" ELSE "no"
    /\ UNCHANGED <<mainVars, buckets, iterVars, ret, histVars, call, isDaemon, g_running, pcMain,
                   keyC, sigPc, sigThread, notified, applied, slept, cancelInSleep,
                   quitRead>>

\* interruptibleSleep returns to the loop, before its deadline ("cut") or not
SleepReturns ==
    /\ pcLogic' = "check"
    /\ slept' = IF expired THEN "timeout" ELSE "cut"
    /\ expired' = FALSE

\* line 266: the predicate !g_sleeping, evaluated with g_sleep_mutex held
LogicPred ==
    /\ pcLogic = "pred" /\ LogicRuns
    /\ IF ~g_sleeping
       THEN SleepReturns
       ELSE pcLogic' = "block" /\ UNCHANGED <<slept, expired>>
    /\ UNCHANGED <<mainVars, buckets, iterVars, ret, histVars, call, isDaemon, g_running, g_sleeping,
                   pcMain, keyC, sigPc, sigThread, notified, applied, cancelInSleep, stale,
                   quitRead>>

\* line 266: wait_until releases the mutex and blocks on g_sleep_cv
LogicBlock ==
    /\ pcLogic = "block" /\ LogicRuns
    /\ pcLogic' = "waiting"
    /\ notified' = FALSE
    /\ UNCHANGED <<mainVars, buckets, iterVars, ret, histVars, call, isDaemon, g_running, g_sleeping,
                   pcMain, keyC, sigPc, sigThread, expired, applied, slept, cancelInSleep,
                   stale, quitRead>>

\* A wait without deadline: the blocked thread wakes by notify_all only.
LogicWakeOnlyNotified ==
    /\ pcLogic = "waiting" /\ LogicRuns
    /\ notified
    /\ notified' = FALSE
    /\ pcLogic' = "pred"
    /\ UNCHANGED <<mainVars, buckets, iterVars, ret, histVars, call, isDaemon, g_running, g_sleeping,
                   pcMain, keyC, sigPc, sigThread, applied, cancelInSleep, stale, quitRead,
                   slept, expired>>

\* line 266: the blocked thread wakes, by notify_all or at the deadline; on
\* timeout wait_for returns whatever the predicate says
LogicWake ==
    /\ pcLogic = "waiting" /\ LogicRuns
    /\ notified \/ expired
    /\ notified' = FALSE
    /\ IF expired
       THEN SleepReturns
       ELSE pcLogic' = "pred" /\ UNCHANGED <<slept, expired>>
    /\ UNCHANGED <<mainVars, buckets, iterVars, ret, histVars, call, isDaemon, g_running, g_sleeping,
                   pcMain, keyC, sigPc, sigThread, applied, cancelInSleep, stale, quitRead>>

\* line 266: a spurious wake-up of the blocked thread; the predicate is evaluated again
LogicSpuriousWake ==
    /\ pcLogic = "waiting" /\ LogicRuns
    /\ ~notified /\ ~expired
    /\ pcLogic' = "pred"
    /\ UNCHANGED <<mainVars, buckets, iterVars, ret, histVars, call, isDaemon, g_running, g_sleeping,
                   pcMain, keyC, sigPc, sigThread, notified, expired, applied, slept,
                   cancelInSleep, stale, quitRead>>

\* the deadline of the wait_for of line 266 passes
Timeout ==
    /\ InSleep /\ ~expired
    /\ expired' = TRUE
    /\ UNCHANGED <<mainVars, buckets, iterVars, ret, histVars, call, isDaemon, g_running, g_sleeping,
                   pcLogic, pcMain, keyC, sigPc, sigThread, notified, applied, slept,
                   cancelInSleep, stale, quitRead>>

\* lines 424-426: checkKeyPress(&c) reads one byte
MainReadKey ==
    /\ pcMain = "read" /\ MainRuns
    /\ \E c \in {"q", "x"} :
          /\ keyC' = c
          /\ quitRead' = (quitRead \/ c = "q")
    /\ pcMain' = "key_store"
    /\ UNCHANGED <<mainVars, buckets, iterVars, ret, histVars, call, isDaemon, g_running, g_sleeping,
                   pcLogic, sigPc, sigThread, notified, expired, applied, slept,
                   cancelInSleep, stale>>

\* lines 425-431: read returns n <= 0 (end of input, or EINTR); c is not
\* written, and line 431 reads it uninitialized: any value
MainReadFails ==
    /\ pcMain = "read" /\ MainRuns
    /\ \E c \in {"q", "x"} :
          /\ keyC' = c
          /\ pcMain' = IF c = "q" THEN "shut_run" ELSE "read"
    /\ UNCHANGED <<mainVars, buckets, iterVars, ret, histVars, call, isDaemon, g_running, g_sleeping,
                   pcLogic, sigPc, sigThread, notified, expired, applied, slept,
                   cancelInSleep, stale, quitRead>>

\* line 427: g_sleeping = false
MainKeyStore ==
    /\ pcMain = "key_store" /\ MainRuns
    /\ CancelStore
    /\ pcMain' = "key_notify"
    /\ UNCHANGED <<mainVars, buckets, iterVars, ret, histVars, call, isDaemon, g_running, pcLogic,
                   keyC, sigPc, sigThread, notified, expired, applied, slept, quitRead>>

\* lines 428-431: g_sleep_cv.notify_all(); if (c == 'q') break
MainKeyNotify ==
    /\ pcMain = "key_notify" /\ MainRuns
    /\ CancelNotify
    /\ pcMain' = IF keyC = "q" THEN "shut_run" ELSE "read"
    /\ UNCHANGED <<mainVars, buckets, iterVars, ret, histVars, call, isDaemon, g_running, g_sleeping,
                   pcLogic, keyC, sigPc, sigThread, expired, applied, slept, cancelInSleep,
                   stale, quitRead>>

\* line 435: g_running = false
MainShutRun ==
    /\ pcMain = "shut_run" /\ MainRuns
    /\ g_running' = FALSE
    /\ pcMain' = "shut_store"
    /\ UNCHANGED <<mainVars, buckets, iterVars, ret, histVars, call, isDaemon, g_sleeping, pcLogic,
                   keyC, sigPc, sigThread, notified, expired, applied, slept,
                   cancelInSleep, stale, quitRead>>

\* line 436: g_sleeping = false
MainShutStore ==
    /\ pcMain = "shut_store" /\ MainRuns
    /\ CancelStore
    /\ pcMain' = "shut_notify"
    /\ UNCHANGED <<mainVars, buckets, iterVars, ret, histVars, call, isDaemon, g_running, pcLogic,
                   keyC, sigPc, sigThread, notified, expired, applied, slept, quitRead>>

\* line 437: g_sleep_cv.notify_all()
MainShutNotify ==
    /\ pcMain = "shut_notify" /\ MainRuns
    /\ CancelNotify
    /\ pcMain' = "join"
    /\ UNCHANGED <<mainVars, buckets, iterVars, ret, histVars, call, isDaemon, g_running, g_sleeping,
                   pcLogic, keyC, sigPc, sigThread, expired, applied, slept, cancelInSleep,
                   stale, quitRead>>

\* lines 421 and 438: logicThread.join() returns once the thread has left
\* its loop; after the join of daemon mode main goes on to line 435
MainJoin ==
    /\ pcMain \in {"join", "join_daemon"} /\ MainRuns
    /\ pcLogic = "exited"
    /\ pcMain' = IF pcMain = "join_daemon" THEN "shut_run" ELSE "done"
    /\ UNCHANGED <<mainVars, buckets, iterVars, ret, histVars, call, isDaemon, g_running, g_sleeping,
                   pcLogic, keyC, sigPc, sigThread, notified, expired, applied, slept,
                   cancelInSleep, stale, quitRead>>

\* SIGRTMIN+10 is delivered to a thread of the process and handle_signal
\* starts on it; line 32
SigDeliver ==
    /\ sigPc = "idle" /\ pcMain # "done"
    /\ \E th \in {"main", "logic"} :
          /\ th = "logic" => pcLogic # "exited"
          /\ sigThread' = th
    /\ sigPc' = "print"
    /\ UNCHANGED <<mainVars, buckets, iterVars, ret, histVars, call, isDaemon, g_running, g_sleeping,
                   pcLogic, pcMain, keyC, notified, expired, applied, slept, cancelInSleep,
                   stale, quitRead>>

\* handle_signal, line 33: std::cout << "Received SIGRTMIN+10! ..."
SigPrint ==
    /\ sigPc = "print"
    /\ sigPc' = "store"
    /\ UNCHANGED <<mainVars, buckets, iterVars, ret, histVars, call, isDaemon, g_running,
                   g_sleeping, pcLogic, pcMain, keyC, sigThread, notified, expired, applied,
                   slept, cancelInSleep, stale, quitRead>>

\* handle_signal, line 34: g_sleeping = false
SigStore ==
    /\ sigPc = "store"
    /\ CancelStore
    /\ sigPc' = "notify"
    /\ UNCHANGED <<mainVars, buckets, iterVars, ret, histVars, call, isDaemon, g_running, pcLogic,
                   pcMain, keyC, sigThread, notified, expired, applied, slept, quitRead>>

\* handle_signal, line 35: g_sleep_cv.notify_all(), and the handler returns
SigNotify ==
    /\ sigPc = "notify"
    /\ CancelNotify
    /\ sigPc' = "idle"
    /\ sigThread' = "none"
    /\ UNCHANGED <<mainVars, buckets, iterVars, ret, histVars, call, isDaemon, g_running, g_sleeping,
                   pcLogic, pcMain, keyC, expired, applied, slept, cancelInSleep, stale,
                   quitRead>>

\* the rows of the datasets of the loop specification: 0.25 and 0.95
LoopRowSet == {r \in RowSet : r.parses /\ r.score \in {5, 19}}

\* main, lines 374-397 and 399: the dataset has images, the iterator is
\* built and logicThread started; daemon mode has no keypress loop
InitLoop ==
    /\ isDaemon \in BOOLEAN
    /\ \E rs \in UNION {[1 .. k -> LoopRowSet] : k \in 0 .. MaxLoopRows} :
          /\ MainPast(rs, TRUE, isDaemon)
          /\ buckets = loadBuckets(rs)
          /\ hasImages(buckets)
          /\ IteratorInit(buckets)
    /\ call = NoCall
    /\ g_running = TRUE
    /\ g_sleeping = FALSE
    /\ pcLogic = "check"
    /\ pcMain = IF isDaemon THEN "join_daemon" ELSE "read"
    /\ keyC = "x"
    /\ sigPc = "idle"
    /\ sigThread = "none"
    /\ notified = FALSE
    /\ expired = FALSE
    /\ applied = 0
    /\ slept = "none"
    /\ cancelInSleep = FALSE
    /\ stale = "no"
    /\ quitRead = FALSE

NextLoop ==
    \/ LogicCheck
    \/ LogicGetNext
    \/ LogicApply
    \/ LogicBackoff
    \/ LogicSleepSet
    \/ LogicPred
    \/ LogicBlock
    \/ LogicWake
    \/ LogicSpuriousWake
    \/ Timeout
    \/ MainReadKey
    \/ MainReadFails
    \/ MainKeyStore
    \/ MainKeyNotify
    \/ MainShutRun
    \/ MainShutStore
    \/ MainShutNotify
    \/ MainJoin
    \/ SigDeliver
    \/ SigPrint
    \/ SigStore
    \/ SigNotify

SpecLoop == InitLoop /\ [][NextLoop]_vars

(***************************************************************************)
(* SpecLive: the loop under fair scheduling, on the datasets of one row    *)
(* (the rotation cannot block; the sleep and its cancels are all there).  *)
(* A thread that is runnable again and again gets to run: the steps of    *)
(* logicThread are strongly fair, a spurious wake-up excepted, which      *)
(* nothing promises. A handler that has started runs to its end, and the  *)
(* clock reaches the deadline of a wait_for. Keys and signals arrive or   *)
(* not: no fairness for them.                                             *)
(***************************************************************************)
InitLive ==
    /\ InitLoop
    /\ Len(fileRows) = 1

\* lines 399-418 and 257-268: the steps logicThread takes when it runs
LogicStep ==
    \/ LogicCheck
    \/ LogicGetNext
    \/ LogicApply
    \/ LogicBackoff
    \/ LogicSleepSet
    \/ LogicPred
    \/ LogicBlock
    \/ LogicWake

\* lines 30-37: handle_signal, once entered, runs to its return
HandlerStep == SigPrint \/ SigStore \/ SigNotify

SpecLive ==
    /\ InitLive
    /\ [][NextLoop]_vars
    /\ SF_vars(LogicStep)
    /\ WF_vars(HandlerStep)
    /\ WF_vars(Timeout)

(***************************************************************************)
(* SpecMain: main from the parsing of its arguments to the start of the    *)
(* loop thread or to the end of the single execution mode (lines 336-397   *)
(* and 440-489), with daemonize (lines 39-85).  The processes of the run   *)
(* are the launched process and, in daemon mode, the children of the two   *)
(* forks; pcMain follows the process that goes on, exitCodes collects the  *)
(* statuses of the ones that have ended.                                   *)
(***************************************************************************)
\* the loop variables main's startup leaves alone
restVars == <<g_running, g_sleeping, keyC, sigPc, sigThread, notified, expired, slept,
              cancelInSleep, stale, quitRead>>

\* the command line and the file system
inputVars == <<isDaemon, isLoop, inputFile, fileRows>>

\* return <code> from main, or exit(<code>): the running process ends
EndProcess(code) ==
    /\ exitCodes' = Append(exitCodes, code)
    /\ pcMain' = "exit"

\* fork() and setsid() succeed or fail
CallOutcomes == {"ok", "fail"}

\* lines 336-349: program.parse_args; a runtime_error ends main with 1
MainParseArgs ==
    /\ pcMain = "parse"
    /\ \E outcome \in CallOutcomes :
          IF outcome = "ok"
          THEN pcMain' = "canonical" /\ UNCHANGED exitCodes
          ELSE EndProcess(EXIT_FAILURE)
    /\ UNCHANGED <<inputVars, restVars, buckets, iterVars, ret, histVars, call, pcLogic,
                   applied, iteratorBuilt, applyCount, single>>

\* lines 351-357: std::filesystem::canonical(inputPath) throws for a path
\* that does not exist
MainCanonical ==
    /\ pcMain = "canonical"
    /\ IF inputFile = "missing"
       THEN EndProcess(EXIT_FAILURE)
       ELSE pcMain' = "handler" /\ UNCHANGED exitCodes
    /\ UNCHANGED <<inputVars, restVars, buckets, iterVars, ret, histVars, call, pcLogic,
                   applied, iteratorBuilt, applyCount, single>>

\* lines 359-371: sigaction, the two prints, if (isDaemon) daemonize()
MainHandler ==
    /\ pcMain = "handler"
    /\ pcMain' = IF isDaemon THEN "fork1" ELSE "load"
    /\ UNCHANGED <<inputVars, restVars, buckets, iterVars, ret, histVars, call, pcLogic,
                   applied, exitCodes, iteratorBuilt, applyCount, single>>

\* daemonize, lines 41-51: fork; on failure exit(EXIT_FAILURE), the parent
\* exits with EXIT_SUCCESS and the child goes on
DaemonFork1 ==
    /\ pcMain = "fork1"
    /\ \E outcome \in CallOutcomes :
          IF outcome = "fail"
          THEN EndProcess(EXIT_FAILURE)
          ELSE /\ exitCodes' = Append(exitCodes, EXIT_SUCCESS)
               /\ pcMain' = "setsid"
    /\ UNCHANGED <<inputVars, restVars, buckets, iterVars, ret, histVars, call, pcLogic,
                   applied, iteratorBuilt, applyCount, single>>

\* daemonize, lines 54-60: setsid; on failure exit(EXIT_FAILURE)
DaemonSetsid ==
    /\ pcMain = "setsid"
    /\ \E outcome \in CallOutcomes :
          IF outcome = "fail"
          THEN EndProcess(EXIT_FAILURE)
          ELSE pcMain' = "fork2" /\ UNCHANGED exitCodes
    /\ UNCHANGED <<inputVars, restVars, buckets, iterVars, ret, histVars, call, pcLogic,
                   applied, iteratorBuilt, applyCount, single>>

\* daemonize, lines 63-84: the second fork, then umask, chdir, the
\* redirection of the standard streams
DaemonFork2 ==
    /\ pcMain = "fork2"
    /\ \E outcome \in CallOutcomes :
          IF outcome = "fail"
          THEN EndProcess(EXIT_FAILURE)
          ELSE /\ exitCodes' = Append(exitCodes, EXIT_SUCCESS)
               /\ pcMain' = "load"
    /\ UNCHANGED <<inputVars, restVars, buckets, iterVars, ret, histVars, call, pcLogic,
                   applied, iteratorBuilt, applyCount, single>>

\* line 374 with lines 124-128: a file that cannot be opened gives six empty buckets
MainLoad ==
    /\ pcMain = "load"
    /\ buckets' = IF inputFile = "ok" THEN loadBuckets(fileRows) ELSE EmptyBuckets
    /\ pcMain' = "check_images"
    /\ UNCHANGED <<inputVars, restVars, iterVars, ret, histVars, call, pcLogic, applied,
                   exitCodes, iteratorBuilt, applyCount, single>>

\* lines 376-395: return 1 without images; else the branch on the mode
MainCheckImages ==
    /\ pcMain = "check_images"
    /\ IF ~hasImages(buckets)
       THEN EndProcess(EXIT_FAILURE)
       ELSE /\ pcMain' = IF isLoop \/ isDaemon THEN "start" ELSE "single"
            /\ UNCHANGED exitCodes
    /\ UNCHANGED <<inputVars, restVars, buckets, iterVars, ret, histVars, call, pcLogic,
                   applied, iteratorBuilt, applyCount, single>>

\* lines 397-423: BucketIterator iterator(buckets), std::thread logicThread;
\* main goes to the join (daemon) or to the keypress loop
MainStartLoop ==
    /\ pcMain = "start"
    /\ shuffledBuckets' \in ShuffleFrom(buckets, 0)
    /\ currentIndices' = [b \in BucketIds |-> 0]
    /\ lastUsedBucket' = NoBucket
    /\ iteratorBuilt' = TRUE
    /\ pcLogic' = "check"
    /\ pcMain' = IF isDaemon THEN "join_daemon" ELSE "read"
    /\ UNCHANGED <<inputVars, restVars, buckets, ret, histVars, call, applied, exitCodes,
                   applyCount, single>>

\* lines 442-479: hour, targetBucket, the search, the throw on an empty
\* bucket (caught at line 483: return 1), dist(gen) over the chosen bucket
MainSinglePick ==
    /\ pcMain = "single"
    /\ \E hour \in Hours :
          LET targetBucket == getTargetBucketForHour(hour)
              chosenBucket == SingleFindLoop(buckets, targetBucket, targetBucket, 0)
          IN  IF buckets[chosenBucket] = <<>>
              THEN EndProcess(EXIT_FAILURE) /\ UNCHANGED single
              ELSE \E k \in 1 .. Len(buckets[chosenBucket]) :
                      /\ single' = [target |-> targetBucket, bucket |-> chosenBucket,
                                    image |-> buckets[chosenBucket][k]]
                      /\ pcMain' = "single_apply"
                      /\ UNCHANGED exitCodes
    /\ UNCHANGED <<inputVars, restVars, buckets, iterVars, ret, histVars, call, pcLogic,
                   applied, iteratorBuilt, applyCount>>

\* lines 481-489: executeWallpaperChange(execStr, chosen, hour, chosenBucket);
\* an error it raises is caught at line 483: return 1; else return 0
MainSingleApply ==
    /\ pcMain = "single_apply"
    /\ applyCount' = applyCount + 1
    /\ applied' = single.image.filePath
    /\ \E outcome \in ApplyOutcomes :
          EndProcess(IF outcome = "ok" THEN EXIT_SUCCESS ELSE EXIT_FAILURE)
    /\ UNCHANGED <<inputVars, restVars, buckets, iterVars, ret, histVars, call, pcLogic,
                   iteratorBuilt, single>>

\* the states of the file at inputPath
FileStates == {"missing", "unreadable", "ok"}

InitMain ==
    /\ isDaemon \in BOOLEAN
    /\ isLoop \in BOOLEAN
    /\ inputFile \in FileStates
    /\ fileRows \in (IF inputFile = "ok" THEN Datasets(MaxRows) ELSE {<<>>})
    /\ buckets = EmptyBuckets
    /\ shuffledBuckets = EmptyBuckets
    /\ currentIndices = [b \in BucketIds |-> 0]
    /\ lastUsedBucket = NoBucket
    /\ ret = NoRet
    /\ pass = <<>>
    /\ lastPass = NoPass
    /\ since = [b \in BucketIds |-> {}]
    /\ repeated = FALSE
    /\ idxBefore = 0
    /\ call = NoCall
    /\ g_running = TRUE
    /\ g_sleeping = FALSE
    /\ pcLogic = "unstarted"
    /\ pcMain = "parse"
    /\ keyC = "x"
    /\ sigPc = "idle"
    /\ sigThread = "none"
    /\ notified = FALSE
    /\ expired = FALSE
    /\ applied = 0
    /\ slept = "none"
    /\ cancelInSleep = FALSE
    /\ stale = "no"
    /\ quitRead = FALSE
    /\ exitCodes = <<>>
    /\ iteratorBuilt = FALSE
    /\ applyCount = 0
    /\ single = NoSingle

NextMain ==
    \/ MainParseArgs
    \/ MainCanonical
    \/ MainHandler
    \/ DaemonFork1
    \/ DaemonSetsid
    \/ DaemonFork2
    \/ MainLoad
    \/ MainCheckImages
    \/ MainStartLoop
    \/ MainSinglePick
    \/ MainSingleApply

SpecMain == InitMain /\ [][NextMain]_vars

(***************************************************************************)
(* Claims about the iterator (SpecIter) and the pure functions (SpecPure). *)
(***************************************************************************)

\* C1: a pass over a bucket of n images that starts at cursor 0 and is made
\* of n consecutive getNext calls resolving to that bucket returns each of
\* the bucket's n images exactly once.
C1_FullPassOnce ==
    lastPass.bucket # NoBucket =>
        /\ Len(lastPass.images) = Len(buckets[lastPass.bucket])
        /\ Elems(lastPass.images) = Elems(buckets[lastPass.bucket])

\* the candidates of the reference search, in its order: target, target+1,
\* target-1, target+2, target-2, ...
RefOrder(targetBucket) ==
    <<targetBucket>> \o
    [k \in 1 .. 2 * (NumBuckets - 1) |->
        IF k % 2 = 1 THEN targetBucket + (k + 1) \div 2 ELSE targetBucket - k \div 2]

InRangeNonEmpty(bs, c) == c \in BucketIds /\ bs[c] # <<>>

RECURSIVE FirstNonEmpty(_, _, _)
FirstNonEmpty(bs, order, k) ==
    IF k > Len(order) THEN NoBucket
    ELSE IF InRangeNonEmpty(bs, order[k]) THEN order[k]
    ELSE FirstNonEmpty(bs, order, k + 1)

RefSearch(bs, targetBucket) == FirstNonEmpty(bs, RefOrder(targetBucket), 1)

\* C2: the bucket getNext resolves to is the target if it is non-empty,
\* otherwise the first non-empty bucket in the order target+1, target-1,
\* target+2, target-2, ... with out-of-range candidates skipped; it resolves
\* to none exactly when the reference search finds none.
C2_FallbackIsReference ==
    call.fn = "resolve" =>
        /\ call.ok <=> RefSearch(call.bs, call.arg) # NoBucket
        /\ call.ok => call.res = RefSearch(call.bs, call.arg)

\* buckets 1 and 3 non-empty, bucket 2 empty, target 2: the upward bucket 3
C2_Witness ==
    /\ call.fn = "resolve"
    /\ call.arg = 2
    /\ call.bs[2] = <<>> /\ call.bs[1] # <<>> /\ call.bs[3] # <<>>
    /\ call.ok /\ call.res = 3

\* C3: getNext fails exactly when all six buckets are empty; otherwise it
\* returns, for any target, an image that is a member of the non-empty
\* bucket it chose.
C3_FailsIffAllEmpty ==
    ret.status # "none" =>
        /\ ret.status = "error" <=> ~hasImages(buckets)
        /\ ret.status = "ok" =>
              /\ buckets[ret.bucket] # <<>>
              /\ ret.image \in Elems(buckets[ret.bucket])

\* a call whose target bucket is empty and that returned from another bucket
C3_Witness ==
    /\ ret.status = "ok"
    /\ buckets[ret.target] = <<>>
    /\ ret.bucket # ret.target
    /\ ret.image \in Elems(buckets[ret.bucket])

HourTable ==
    [hour \in Hours |->
        CASE hour \in 21 .. 23 -> 0
          [] hour = 20 -> 1
          [] hour = 19 -> 2
          [] hour = 18 -> 3
          [] hour = 17 -> 4
          [] hour \in 12 .. 16 -> 5
          [] hour \in 9 .. 11 -> 2
          [] hour \in 7 .. 8 -> 2
          [] hour \in 5 .. 6 -> 1
          [] hour \in 0 .. 4 -> 0]

ThresholdTable(score) ==
    CASE score >= 19 -> 0
      [] score \in 17 .. 18 -> 1
      [] score \in 13 .. 16 -> 2
      [] score \in 9 .. 12 -> 3
      [] score \in 5 .. 8 -> 4
      [] score <= 4 -> 5

\* C8: for every score of the grid getDarknessBucket equals the threshold
\* table with strict comparisons, and its result is a bucket 0..5.
C8_ThresholdTable ==
    call.fn = "getDarknessBucket" =>
        /\ call.res = ThresholdTable(call.arg)
        /\ call.res \in BucketIds

\* the score 0.9 exactly: bucket 1, not bucket 0
C8_Witness ==
    /\ call.fn = "getDarknessBucket"
    /\ call.arg = 18
    /\ call.res = 1

\* C10: over any sequence of getNext calls, the images returned from one
\* bucket do not contain an image a second time before every image of that
\* bucket has been returned (since is emptied by a wraparound, so the
\* re-selection after a wraparound reshuffle does not count).
C10_NoRepeatBeforeExhaustion == ~repeated

\* C13: the dataset loader rejects the rows whose score is <= 0: no image
\* with a score of 0 or below is a member of a bucket after loadBuckets.
C13_LoaderRejectsNonPositive ==
    \A b \in BucketIds : \A i \in 1 .. Len(buckets[b]) : buckets[b][i].score > 0

\* the hour policy as the help text of the program prints it (lines 289-299)
HelpHourTable ==
    [hour \in Hours |->
        CASE hour \in 21 .. 23 -> 0
          [] hour = 20 -> 1
          [] hour = 19 -> 2
          [] hour = 18 -> 3
          [] hour = 17 -> 4
          [] hour \in 12 .. 16 -> 5
          [] hour \in 9 .. 11 -> 4
          [] hour \in 7 .. 8 -> 2
          [] hour \in 5 .. 6 -> 1
          [] hour \in 0 .. 4 -> 0]

\* C14: for every hour 0..23 getTargetBucketForHour gives the bucket the
\* help text documents; the hours 9, 10 and 11 give the bright bucket 4.
C14_HelpTextPolicy ==
    call.fn = "getTargetBucketForHour" => call.res = HelpHourTable[call.arg]

\* C15: the image a successful getNext call returns is the element that
\* stood at order[chosen][cursor] when the call read it, also when the same
\* call goes on to the wraparound reshuffle.
C15_ReturnsElementRead ==
    ret.status = "ok" => ret.image = ret.readImage

\* C16: in every successful getNext call lastUsedBucket becomes the chosen
\* bucket.  If the chosen bucket differs from lastUsedBucket (the first call,
\* a target change, a fallback substitution) its cursor is reset before the
\* read: the call reads slot 0 of the order it leaves behind and the cursor
\* ends at 1 (at 0 for a bucket of one image).  If the chosen bucket equals
\* lastUsedBucket there is no reset and no reshuffle before the read: the
\* call reads the slot at the old cursor of the old order and advances it.
C16_BucketSwitchRule ==
    [][ret'.status = "ok" =>
          LET b == ret'.bucket
              n == Len(shuffledBuckets[b])
          IN  /\ lastUsedBucket' = b
              /\ b # lastUsedBucket =>
                    /\ currentIndices'[b] = 1 % n
                    /\ n > 1 => ret'.readImage = shuffledBuckets'[b][1]
              /\ b = lastUsedBucket =>
                    /\ currentIndices'[b] = (currentIndices[b] + 1) % n
                    /\ ret'.readImage = shuffledBuckets[b][currentIndices[b] + 1]
                    /\ currentIndices[b] + 1 < n => shuffledBuckets'[b] = shuffledBuckets[b]
      ]_vars

\* a switch caused by a fallback substitution, back to a bucket whose
\* cursor stood at 1: the cursor was reset and stands at 1 again
C16_Witness ==
    /\ ret.status = "ok"
    /\ ret.bucket # ret.target
    /\ ret.switched
    /\ lastUsedBucket = ret.bucket
    /\ idxBefore = 1
    /\ Len(buckets[ret.bucket]) = 2
    /\ currentIndices[ret.bucket] = 1

\* the cursor a successful call starts its read from: 0 after a bucket
\* change, else the bucket's cursor
ReadStart(b) == IF b # lastUsedBucket THEN 0 ELSE currentIndices[b]

\* C17 as claimed: of the consecutive calls on a bucket of n images from
\* the start of a pass, call n, which reads the last slot, leaves the
\* cursor at n without a reshuffle, and call n+1 does the
\* reshuffle-and-reset, without an error.
C17_WrapInCallAfterLast ==
    [][ret'.status = "ok" =>
          LET b == ret'.bucket
              n == Len(shuffledBuckets[b])
          IN  /\ ReadStart(b) + 1 = n => currentIndices'[b] = n /\ ~ret'.wrapped
              /\ ReadStart(b) = n => currentIndices'[b] = 0 /\ ret'.wrapped
      ]_vars

\* C17 as amended: of the consecutive calls on a bucket of n images from
\* the start of a pass, the calls before the n-th advance the cursor by
\* one, and the n-th call, which reads the last slot, itself does the
\* reshuffle-and-reset: the cursor is 0 when it returns.  Call n+1 then
\* reads slot 0 of the new order: every call reads inside the order, none
\* raises an error.
C17_WrapInLastCall ==
    [][ret'.status # "none" =>
          LET b == ret'.bucket
              n == Len(shuffledBuckets[b])
          IN  /\ ret'.status = "ok" <=> hasImages(buckets)
              /\ ret'.status = "ok" =>
                    /\ ReadStart(b) < n
                    /\ ReadStart(b) + 1 < n =>
                          currentIndices'[b] = ReadStart(b) + 1 /\ ~ret'.wrapped
                    /\ ReadStart(b) + 1 = n =>
                          currentIndices'[b] = 0 /\ ret'.wrapped
      ]_vars

\* the third consecutive call from cursor 0 on a bucket of three images
\* has reset the cursor
C17_Witness ==
    /\ ret.status = "ok"
    /\ Len(buckets[ret.bucket]) = 3
    /\ lastPass.bucket = ret.bucket
    /\ Len(lastPass.images) = 3
    /\ currentIndices[ret.bucket] = 0
    /\ ret.wrapped

\* the rows the loader accepts: two fields at least, and a score that parses
Accepted(i) == fileRows[i].fields >= 2 /\ fileRows[i].parses

\* the places (bucket, position) where the image of row i stands in bs
Places(bs, i) ==
    {<<b, k>> \in BucketIds \X (1 .. Len(fileRows)) :
        k <= Len(bs[b]) /\ bs[b][k].filePath = i}

\* C18: every accepted row is in exactly one bucket, the one
\* getDarknessBucket gives for its score, and rejected rows are in none;
\* after construction and after any sequence of getNext calls each
\* bucket's order is a permutation of that membership: same size, same
\* images, none twice, none in another bucket.
C18_MembershipFixed ==
    /\ \A i \in 1 .. Len(fileRows) :
          /\ Accepted(i) =>
                /\ \A pl \in Places(buckets, i) \cup Places(shuffledBuckets, i) :
                      pl[1] = getDarknessBucket(fileRows[i].score)
                /\ Cardinality(Places(buckets, i)) = 1
                /\ Cardinality(Places(shuffledBuckets, i)) = 1
          /\ ~Accepted(i) => Places(buckets, i) = {} /\ Places(shuffledBuckets, i) = {}
    /\ \A b \in BucketIds :
          /\ Len(shuffledBuckets[b]) = Len(buckets[b])
          /\ Elems(shuffledBuckets[b]) = Elems(buckets[b])
          /\ \A k \in 1 .. Len(buckets[b]) :
                /\ buckets[b][k].filePath \in 1 .. Len(fileRows)
                /\ buckets[b][k].score = fileRows[buckets[b][k].filePath].score

\* after a wraparound reshuffle the order of a bucket of three images
\* differs from the order at load time
C18_Witness ==
    /\ ret.status = "ok"
    /\ ret.wrapped
    /\ Len(buckets[ret.bucket]) = 3
    /\ shuffledBuckets[ret.bucket] # buckets[ret.bucket]

\* C19: between getNext calls every bucket's cursor lies between 0 and the
\* size of the bucket.
C19_CursorBound ==
    \A b \in BucketIds :
        /\ 0 <= currentIndices[b]
        /\ currentIndices[b] <= Len(shuffledBuckets[b])

\* a cursor on the last image of a bucket of three, others at 0
C19_Witness ==
    /\ ret.status = "ok"
    /\ Len(shuffledBuckets[ret.bucket]) = 3
    /\ currentIndices[ret.bucket] = 2


(***************************************************************************)
(* Claims about loop mode (SpecLoop).                                      *)
(***************************************************************************)
CancelInProgress == sigPc # "idle" \/ pcMain \in {"key_store", "key_notify", "shut_store", "shut_notify"}

\* the loop thread is blocked on g_sleep_cv before its deadline and no
\* notify_all has reached it: it stays blocked until the deadline unless a
\* further cancel or a spurious wake-up comes
BlockedUntilTimeout == pcLogic = "waiting" /\ ~notified /\ ~expired

\* C4: a cancel (g_sleeping = false, then notify_all) that happens after
\* interruptibleSleep has set g_sleeping = true and before the sleep
\* returns makes the sleep return without waiting for its deadline: once
\* such a cancel has run to its end, the loop thread is not left blocked
\* until the timeout.
C4_CancelPreemptsTimeout ==
    ~(cancelInSleep /\ ~CancelInProgress /\ BlockedUntilTimeout)

\* C5: once 'q' has been read, main has set g_running = false, cancelled
\* and reached the join, the loop thread leaves the loop without a sleep
\* having to run to its timeout: it is not blocked until the timeout, and
\* it does not enter a sleep that nothing will cancel.
C5_PromptShutdown ==
    (quitRead /\ pcMain = "join" /\ sigPc = "idle") =>
        /\ ~BlockedUntilTimeout
        /\ pcLogic \notin {"sleep", "block"}
        /\ ~(pcLogic = "pred" /\ g_sleeping)

\* C6: an error raised by getNext or by the apply step is caught: the
\* thread goes to the backoff and from there to the loop condition, with
\* g_running unchanged; the failing apply step leaves order, cursors and
\* lastUsedBucket unchanged; the thread leaves the loop only from the loop
\* condition, and only when g_running is false.
C6_FailureStaysInIteration ==
    [][/\ pcLogic \in {"iter", "apply"} /\ pcLogic' # pcLogic =>
            /\ pcLogic' \in {"apply", "sleep", "backoff"}
            /\ g_running' = g_running
       /\ pcLogic = "apply" /\ pcLogic' = "backoff" => UNCHANGED iterVars
       /\ pcLogic = "backoff" /\ pcLogic' # pcLogic =>
            /\ pcLogic' = "check"
            /\ g_running' = g_running
            /\ UNCHANGED iterVars
       /\ pcLogic = "check" /\ pcLogic' # pcLogic =>
            pcLogic' = IF g_running THEN "iter" ELSE "exited"
       /\ pcLogic # "exited" /\ pcLogic' = "exited" => pcLogic = "check" /\ ~g_running
      ]_vars

\* the apply step has failed on the image getNext returned, and the loop runs on
C6_Witness ==
    /\ pcLogic = "backoff"
    /\ ret.status = "ok"
    /\ applied = ret.image.filePath
    /\ g_running

\* C9: a sleep returns before its deadline only if g_sleeping was set false
\* after that very sleep had set it true: a cancel issued while the loop
\* thread is outside a sleep does not cut a later sleep short, and, a store
\* falling into at most one sleep, one cancel cuts short at most one sleep.
C9_CancelConsumedOnce == slept = "cut" => cancelInSleep

\* a sleep that began after a cancel store issued outside any sleep, and
\* that ran to its deadline with no cancel inside it
C9_Witness ==
    /\ slept = "timeout"
    /\ stale = "entered"
    /\ ~cancelInSleep

(***************************************************************************)
(* Claims about startup and the single execution mode (SpecMain).          *)
(***************************************************************************)
\* the dataset file cannot be opened, or its rows give no image
EmptyDataset == inputFile # "ok" \/ ~hasImages(loadBuckets(fileRows))

\* C11: with a dataset file that cannot be opened or yields no image, in
\* every mode: no BucketIterator is built, the loop thread is not started,
\* getNext is not called, the apply step is not invoked, no process of the
\* run ends with a success status, and the run ends with a failure status.
C11_FatalOnEmptyDataset ==
    EmptyDataset =>
        /\ ~iteratorBuilt
        /\ pcLogic = "unstarted"
        /\ ret = NoRet
        /\ applyCount = 0 /\ applied = 0
        /\ pcMain \notin {"start", "single", "single_apply", "read", "join_daemon"}
        /\ \A k \in 1 .. Len(exitCodes) : exitCodes[k] # EXIT_SUCCESS
        /\ pcMain = "exit" => exitCodes # <<>> /\ exitCodes[Len(exitCodes)] = EXIT_FAILURE

OneShot == ~isLoop /\ ~isDaemon

\* C12: in one-shot mode no iterator is built, no loop thread is started,
\* getNext is not called and no sleep is entered; the apply step is invoked
\* at most once, and a run that got past the empty-dataset check ends
\* having invoked it exactly once, on an image that is a member of the
\* bucket the reference search resolves the target to, which is non-empty.
C12_OneShotOnce ==
    OneShot =>
        /\ ~iteratorBuilt /\ shuffledBuckets = EmptyBuckets
        /\ pcLogic = "unstarted" /\ ret = NoRet /\ ~g_sleeping
        /\ pcMain \notin {"start", "read", "join_daemon"}
        /\ applyCount <= 1
        /\ applyCount = 1 => pcMain = "exit"
        /\ (pcMain = "exit" /\ hasImages(buckets)) =>
              /\ applyCount = 1
              /\ single.bucket = RefSearch(buckets, single.target)
              /\ buckets[single.bucket] # <<>>
              /\ single.image \in Elems(buckets[single.bucket])
              /\ applied = single.image.filePath

\* a one-shot run that fell back to another bucket, applied and returned 0
C12_Witness ==
    /\ OneShot
    /\ pcMain = "exit"
    /\ applyCount = 1
    /\ single.bucket # single.target
    /\ single.image \in Elems(buckets[single.bucket])
    /\ exitCodes = <<EXIT_SUCCESS>>

\* the steps handle_signal is allowed: the flag store and the notification
HandlerAllowedSteps == {"store", "notify"}

\* C20: from the delivery of SIGRTMIN+10 to its return, handle_signal is
\* only ever at the store g_sleeping = false or at notify_all: it performs
\* no I/O, logging, allocation or locking step, whichever thread it runs on.
C20_HandlerOnlyFlagAndNotify ==
    sigPc # "idle" => sigPc \in HandlerAllowedSteps

\* C26: a getNext call that raises the no-wallpapers error leaves the rotation
\* state as it was: every bucket's order, every cursor and lastUsedBucket keep
\* the values they had before the call.
C26_FailedCallKeepsState ==
    [][ret'.status = "error" => UNCHANGED iterVars]_vars

\* A call has failed on a dataset without images, and the iterator is as built.
C26_Witness ==
    /\ ret.status = "error"
    /\ ret.target = 3
    /\ shuffledBuckets = EmptyBuckets
    /\ lastUsedBucket = NoBucket
    /\ \A b \in BucketIds : currentIndices[b] = 0

\* C27: between calls every non-empty bucket has its cursor strictly below its
\* size, and the slot a successful call has read (0 after a bucket switch, the
\* stored cursor otherwise) lies inside the chosen, non-empty bucket.
C27_ReadInRange ==
    /\ \A b \in BucketIds :
          shuffledBuckets[b] # <<>> => currentIndices[b] < Len(shuffledBuckets[b])
    /\ ret.status = "ok" =>
          /\ shuffledBuckets[ret.bucket] # <<>>
          /\ (IF ret.switched THEN 0 ELSE idxBefore) < Len(shuffledBuckets[ret.bucket])

\* A call has read the last slot of a two-image bucket without a switch.
C27_Witness ==
    /\ ret.status = "ok"
    /\ ~ret.switched
    /\ Len(shuffledBuckets[ret.bucket]) = 2
    /\ idxBefore = 1
    /\ ret.wrapped

\* C23: for every target 0..5 and every emptiness configuration of the six
\* buckets, the single execution mode resolves the target to the bucket
\* getNext's search resolves it to, and it throws the no-wallpapers error in
\* exactly the configurations in which getNext throws it.
C23_OneShotSearchIsGetNextSearch ==
    call.fn = "resolveSingle" =>
        /\ call.ok <=> resolve(call.bs, call.arg).ok
        /\ call.res = resolve(call.bs, call.arg).bucket

\* target 4 with only buckets 1 and 5 non-empty: both searches take bucket 5,
\* the upward candidate at offset 1, although bucket 1 lies below the target.
C23_Witness ==
    /\ call.fn = "resolveSingle"
    /\ call.arg = 4
    /\ \A b \in BucketIds : call.bs[b] # <<>> <=> b \in {1, 5}
    /\ call.ok /\ call.res = 5

\* C21: an iteration that has raised an error is in the catch block, whose
\* only continuation is the end of the backoff sleep and then the loop
\* condition; getNext is called only by a thread that has come from the loop
\* condition, never straight from a failed iteration or its backoff; and the
\* cancellable sleep is entered only from an apply step that has returned, so
\* the failed iteration has not slept in it.
C21_BackoffBeforeRetry ==
    [][/\ pcLogic = "backoff" /\ pcLogic' # pcLogic => pcLogic' = "check"
       /\ pcLogic' = "backoff" /\ pcLogic # "backoff" => pcLogic \in {"iter", "apply"}
       /\ pcLogic' = "iter" /\ pcLogic # "iter" => pcLogic = "check"
       /\ pcLogic' = "sleep" /\ pcLogic # "sleep" => pcLogic = "apply"
       /\ pcLogic' = "backoff" => slept' = "none" /\ ~InSleep'
       /\ pcLogic = "backoff" => g_sleeping' = g_sleeping \/ ~g_sleeping'
      ]_vars

\* The backoff of a failed iteration is over: the thread is back at the
\* loop condition with an image applied and no cancellable sleep behind it.
C21_Witness ==
    /\ pcLogic = "check"
    /\ applied # 0
    /\ slept = "none"
    /\ g_running

\* the order of the positions of the loop thread in an iteration without error
IterationOrder ==
    {<<"check", "iter">>, <<"iter", "apply">>, <<"apply", "sleep">>,
     <<"sleep", "pred">>, <<"pred", "block">>, <<"block", "waiting">>,
     <<"waiting", "pred">>, <<"pred", "check">>, <<"waiting", "check">>}

\* the ways an iteration leaves that order: an error and its backoff, the exit
ErrorOrder ==
    {<<"iter", "backoff">>, <<"apply", "backoff">>, <<"backoff", "check">>,
     <<"check", "exited">>}

\* C22: the loop thread moves only along loop condition, getNext, apply step,
\* interruptibleSleep and back (or through the backoff); the iterator is
\* called only in the getNext step, with the target bucket of an hour; the
\* apply step gets the path of the image that getNext has just returned; the
\* thread waits only inside the sleep. So one getNext and one sleep (or
\* backoff) lie between two consecutive apply steps.
C22_IterationOrder ==
    [][/\ pcLogic' # pcLogic => <<pcLogic, pcLogic'>> \in IterationOrder \cup ErrorOrder
       /\ (iterVars' # iterVars \/ ret' # ret) =>
             /\ pcLogic = "iter" /\ pcLogic' \in {"apply", "backoff"}
             /\ \E hour \in Hours : ret'.target = getTargetBucketForHour(hour)
       /\ pcLogic = "iter" /\ pcLogic' = "apply" => ret'.status = "ok"
       /\ pcLogic = "apply" /\ pcLogic' # pcLogic =>
             /\ ret.status = "ok"
             /\ applied' = ret.image.filePath
       /\ applied' # applied => pcLogic = "apply" /\ pcLogic' \in {"sleep", "backoff"}
       /\ pcLogic' = "waiting" => pcLogic \in {"block", "waiting"}
      ]_vars

\* The second call on a two-image bucket has wrapped it, its image has been
\* applied and the thread is about to sleep.
C22_Witness ==
    /\ pcLogic = "sleep"
    /\ ret.status = "ok"
    /\ ret.wrapped
    /\ Len(shuffledBuckets[ret.bucket]) = 2
    /\ applied = ret.image.filePath

\* C24: g_running never goes from false back to true; it becomes false only
\* in interactive (non-daemon) loop mode, by the shutdown store of main, and
\* only after the quit key 'q' has been read from standard input; in daemon
\* mode it is true in every state.
C24_RunFlagLifecycle ==
    [][/\ ~g_running => ~g_running'
       /\ g_running /\ ~g_running' => ~isDaemon /\ quitRead /\ pcMain = "shut_run"
       /\ isDaemon => g_running /\ g_running'
      ]_vars

\* C25: once the quit key 'q' has been read by the keypress loop, the loop
\* thread does not call getNext and does not invoke the apply step.
C25_NoChangeAfterQuit ==
    [][quitRead =>
          /\ ~(pcLogic = "iter" /\ pcLogic' # pcLogic)
          /\ ~(pcLogic = "apply" /\ pcLogic' # pcLogic)
          /\ UNCHANGED <<iterVars, ret, applied>>
      ]_vars

\* C28: under fair scheduling every interruptibleSleep returns, whatever
\* keys and signals arrive and also if none arrives, and the loop thread
\* comes to the apply step again and again for as long as g_running is true.
C28_LoopProgress ==
    /\ InSleep ~> ~InSleep
    /\ []<>(pcLogic = "apply" \/ ~g_running)

\* In daemon mode a sleep into which no cancel has fallen has returned at
\* its deadline, after an image had been applied.
C28_Witness ==
    /\ isDaemon
    /\ pcLogic = "check"
    /\ slept = "timeout"
    /\ ~cancelInSleep
    /\ stale = "no"
    /\ applied # 0

=============================================================================
